---------------------------- MODULE Spec2Model ----------------------------
(***************************************************************************)
(* A model of 2fa-cli: the TOTP core (base32 decoding, code generation,    *)
(* countdown, otpauth URI parsing) and the account store with the add      *)
(* paths that feed it.                                                     *)
(*                                                                         *)
(* Strings are sequences of one-character strings.  JavaScript numbers     *)
(* that may be NaN are records [kind, val].                                *)
(***************************************************************************)
EXTENDS Integers, Sequences, FiniteSets, TLC

(***************************************************************************)
(* Bounds of the model.                                                    *)
(***************************************************************************)
MaxLen == 7
MaxTicks == 4
MaxSeconds == 35
MaxAccounts == 2
MaxName == 2

(***************************************************************************)
(* Generic sequence helpers.                                               *)
(***************************************************************************)
SeqsUpTo(S, n) == UNION { [1..k -> S] : k \in 0..n }

RECURSIVE Pow2(_)
Pow2(n) == IF n = 0 THEN 1 ELSE 2 * Pow2(n - 1)

(***************************************************************************)
(* Characters.                                                             *)
(***************************************************************************)
LowerCase == <<"a","b","c","d","e","f","g","h","i","j","k","l","m",
               "n","o","p","q","r","s","t","u","v","w","x","y","z">>
UpperCase == <<"A","B","C","D","E","F","G","H","I","J","K","L","M",
               "N","O","P","Q","R","S","T","U","V","W","X","Y","Z">>
WhiteSpace == {" ", "\t", "\n"}

\* indexOf: the 0-based place of the first occurrence, or -1.
IndexIn(seq, c) ==
    LET at == { i \in 1..Len(seq) : seq[i] = c }
    IN  IF at = {} THEN -1 ELSE (CHOOSE i \in at : \A j \in at : i <= j) - 1

\* String.prototype.toUpperCase on the characters the model uses.
ToUpperChar(c) ==
    IF IndexIn(LowerCase, c) >= 0 THEN UpperCase[IndexIn(LowerCase, c) + 1] ELSE c

toUpperCase(s) == [i \in 1..Len(s) |-> ToUpperChar(s[i])]

\* replace(/=+$/, ""): drop the run of '=' at the end of the string.
RECURSIVE StripTrailingPad(_)
StripTrailingPad(s) ==
    IF s # <<>> /\ s[Len(s)] = "=" THEN StripTrailingPad(SubSeq(s, 1, Len(s) - 1))
    ELSE s

\* replace(/\s/g, ""): drop every whitespace character.
RECURSIVE StripWhiteSpace(_)
StripWhiteSpace(s) ==
    IF s = <<>> THEN <<>>
    ELSE IF Head(s) \in WhiteSpace THEN StripWhiteSpace(Tail(s))
         ELSE <<Head(s)>> \o StripWhiteSpace(Tail(s))

(***************************************************************************)
(* 32-bit integer arithmetic of JavaScript's bitwise operators.            *)
(***************************************************************************)
MinInt32 == (-2147483647) - 1

\* (value << 5) | idx on int32, for 0 <= idx < 32: the low 27 bits of value
\* move up, the top five fall off, and bit 31 becomes the sign.
ShiftLeft5Or(value, idx) ==
    LET low27 == value % 134217728
    IN  IF low27 >= 67108864
        THEN MinInt32 + ((low27 - 67108864) * 32 + idx)
        ELSE low27 * 32 + idx

\* (value >> n) & 0xff on int32: an arithmetic shift, then the low byte.
ShiftRightByte(value, n) == (value \div Pow2(n)) % 256

(***************************************************************************)
(* base32Decode                                                            *)
(***************************************************************************)
alphabet == <<"A","B","C","D","E","F","G","H","I","J","K","L","M","N","O","P",
              "Q","R","S","T","U","V","W","X","Y","Z","2","3","4","5","6","7">>

cleanedInputNoUpperCase(encoded) == StripWhiteSpace(StripTrailingPad(encoded))

cleanedInput(encoded) == StripWhiteSpace(StripTrailingPad(toUpperCase(encoded)))

\* One iteration of the for loop: st = [output, bits, value].
DecodeStep(st, char) ==
    LET idx == IndexIn(alphabet, char)
    IN  IF idx = -1 THEN st
        ELSE LET value == ShiftLeft5Or(st.value, idx)
                 bits  == st.bits + 5
             IN  IF bits >= 8
                 THEN [output |-> Append(st.output, ShiftRightByte(value, bits - 8)),
                       bits   |-> bits - 8,
                       value  |-> value]
                 ELSE [output |-> st.output, bits |-> bits, value |-> value]

RECURSIVE DecodeLoop(_, _)
DecodeLoop(st, s) ==
    IF s = <<>> THEN st ELSE DecodeLoop(DecodeStep(st, Head(s)), Tail(s))

base32DecodeState(encoded) ==
    DecodeLoop([output |-> <<>>, bits |-> 0, value |-> 0], cleanedInput(encoded))

base32Decode(encoded) == base32DecodeState(encoded).output


(***************************************************************************)
(* JavaScript values that flow through digits and period: a number, NaN    *)
(* (parseInt of text without digits), Infinity, or the null that a NaN     *)
(* becomes in the JSON file.  Negative digits are outside the inputs.      *)
(***************************************************************************)
Num(n) == [kind |-> "number", val |-> n]
NaN == [kind |-> "NaN", val |-> 0]
Infinity == [kind |-> "Infinity", val |-> 0]
JsonNull == [kind |-> "null", val |-> 0]
IsNum(v) == v.kind = "number"

\* null in arithmetic is 0.
ToNumber(v) == IF v.kind = "null" THEN Num(0) ELSE v

Digits == <<"0","1","2","3","4","5","6","7","8","9">>

RECURSIVE Pow10(_)
Pow10(n) == IF n = 0 THEN 1 ELSE 10 * Pow10(n - 1)

\* Number.prototype.toString for a non-negative integer.
RECURSIVE toString(_)
toString(n) ==
    IF n < 10 THEN <<Digits[n + 1]>>
    ELSE Append(toString(n \div 10), Digits[(n % 10) + 1])

\* String.prototype.padStart(targetLength, "0").
RECURSIVE padStart(_, _)
padStart(s, targetLength) ==
    IF Len(s) >= targetLength THEN s ELSE padStart(<<"0">> \o s, targetLength)

(***************************************************************************)
(* hmacSha1.  crypto.subtle is the platform's: importKey rejects a         *)
(* zero-length HMAC key with a DataError (WebCrypto, HMAC import: "if      *)
(* length is zero then throw a DataError"), and sign returns a 20-byte     *)
(* digest that is a fixed function of key and message.  The SHA-1          *)
(* compression itself is not modelled: Digest is a stand-in with the same  *)
(* shape (20 bytes, determined by key and message).                        *)
(***************************************************************************)
DigestLen == 20

RECURSIVE Absorb(_, _)
Absorb(h, bytes) ==
    IF bytes = <<>> THEN h
    ELSE Absorb((h * 33 + Head(bytes) + 1) % 65521, Tail(bytes))

Digest(key, message) ==
    LET seed == Absorb(Absorb(5381, key), <<Len(key)>> \o message)
    IN  [i \in 1..DigestLen |-> Absorb(seed, <<i, (7 * i) % 256>>) % 256]

hmacSha1AcceptsEmptyKey(key, message) ==
    [threw |-> FALSE, error |-> "", signature |-> Digest(key, message)]

hmacSha1(key, message) ==
    IF key = <<>>
    THEN [threw |-> TRUE, error |-> "DataError", signature |-> <<>>]
    ELSE [threw |-> FALSE, error |-> "", signature |-> Digest(key, message)]

(***************************************************************************)
(* generateTOTP.  Date.now() is the parameter now, in milliseconds.        *)
(***************************************************************************)
\* Math.floor(Date.now() / 1000 / period), with the mistake of not dividing
\* the milliseconds by 1000.
TimeCounterInMillis(period, now) ==
    IF ~IsNum(period) THEN NaN
    ELSE IF period.val > 0 THEN Num(now \div period.val)
    ELSE IF period.val = 0 THEN (IF now = 0 THEN NaN ELSE Infinity)
    ELSE Num(-((now + (-period.val) - 1) \div (-period.val)))

\* Math.floor(Date.now() / 1000 / period): a real division, then the floor.
\* Division by zero gives Infinity (NaN for 0/0); a negative period gives
\* the floor of a negative quotient.
TimeCounter(period, now) ==
    IF ~IsNum(period) THEN NaN
    ELSE IF period.val > 0 THEN Num(now \div (1000 * period.val))
    ELSE IF period.val = 0 THEN (IF now = 0 THEN NaN ELSE Infinity)
    ELSE LET m == 1000 * (-period.val)
         IN  Num(-((now + m - 1) \div m))

\* The loop over i = 7..0: timeBuffer[i] = t & 0xff; t = Math.floor(t / 256).
\* NaN & 0xff and Infinity & 0xff are 0, and both stay what they are under
\* Math.floor(t / 256).
RECURSIVE TimeBytes(_, _)
TimeBytes(t, n) ==
    IF n = 0 THEN <<>>
    ELSE IF IsNum(t)
         THEN Append(TimeBytes(Num(t.val \div 256), n - 1), t.val % 256)
         ELSE Append(TimeBytes(t, n - 1), 0)

timeBuffer(time) == TimeBytes(time, 8)

\* hmac[hmac.length - 1] & 0x0f
TruncationOffset(hmac) == hmac[Len(hmac)] % 16

\* ((hmac[offset] & 0x7f) << 24) | ((hmac[offset+1] & 0xff) << 16) |
\* ((hmac[offset+2] & 0xff) << 8) | (hmac[offset+3] & 0xff); the fields do
\* not overlap, so | adds.  Sequences are 1-based.
DynamicTruncation(hmac) ==
    LET offset == TruncationOffset(hmac)
    IN  (hmac[offset + 1] % 128) * 16777216 + hmac[offset + 2] * 65536
        + hmac[offset + 3] * 256 + hmac[offset + 4]

FormatCodeNoPad(binCode, digits) ==
    IF ~IsNum(digits) THEN <<"N","a","N">>
    ELSE toString(binCode % Pow10(digits.val))

\* (binCode % Math.pow(10, digits)).toString().padStart(digits, "0");
\* with digits NaN the remainder is NaN and nothing is padded.
FormatCode(binCode, digits) ==
    IF ~IsNum(digits) THEN <<"N","a","N">>
    ELSE padStart(toString(binCode % Pow10(digits.val)), digits.val)

\* The promise generateTOTP returns: resolved with a code, or rejected with
\* the error hmacSha1 threw.  signed tells whether crypto.subtle.sign ran.
generateTOTP(secret, digits, period, now) ==
    LET key  == base32Decode(secret)
        time == TimeCounter(ToNumber(period), now)
        mac  == hmacSha1(key, timeBuffer(time))
    IN  IF mac.threw
        THEN [status |-> "rejected", error |-> mac.error, code |-> <<>>,
              signed |-> FALSE]
        ELSE [status |-> "resolved", error |-> "",
              code |-> FormatCode(DynamicTruncation(mac.signature), ToNumber(digits)),
              signed |-> TRUE]

\* getTimeRemaining: period - (Math.floor(Date.now() / 1000) % period).
getTimeRemainingOfMillis(period, now) == period - (now % period)

getTimeRemaining(period, now) == period - ((now \div 1000) % period)

(***************************************************************************)
(* Text handed to parseOtpAuthUrl.  new URL(text) is the platform's parser *)
(* (WHATWG URL): text without a scheme makes it throw; otherwise it yields *)
(* the protocol (the scheme in lower case, with ':'), the host (kept as    *)
(* written for a scheme that is not special, such as otpauth), the         *)
(* pathname (still percent-encoded) and the query parameters (decoded, in  *)
(* order).  A text is modelled by these parts:                             *)
(*   [kind |-> "url", scheme, host, pathname, query]   scheme://host/...   *)
(*   [kind |-> "text", chars]                          anything else       *)
(***************************************************************************)
ToLowerChar(c) ==
    IF IndexIn(UpperCase, c) >= 0 THEN LowerCase[IndexIn(UpperCase, c) + 1] ELSE c

toLowerCase(s) == [i \in 1..Len(s) |-> ToLowerChar(s[i])]

NewURL(text) ==
    IF text.kind = "url"
    THEN [threw |-> FALSE,
          protocol |-> Append(toLowerCase(text.scheme), ":"),
          host |-> text.host,
          pathname |-> text.pathname,
          searchParams |-> text.query]
    ELSE [threw |-> TRUE, protocol |-> <<>>, host |-> <<>>, pathname |-> <<>>,
          searchParams |-> <<>>]

\* searchParams.get(name): the first value under that name, or null.
Null == [isNull |-> TRUE, str |-> <<>>]
Str(s) == [isNull |-> FALSE, str |-> s]

SearchParamsGet(params, name) ==
    LET at == { i \in 1..Len(params) : params[i].name = name }
    IN  IF at = {} THEN Null
        ELSE Str(params[CHOOSE i \in at : \A j \in at : i <= j].value)

\* x || fallback for a string or null: null and "" are falsy.
OrElse(x, fallback) == IF x.isNull \/ x.str = <<>> THEN fallback ELSE x.str

\* Printable ASCII, 0x20 to 0x7E (the double quote, the backslash and
\* the backtick are written as named atoms).
Ascii ==
    <<" ","!","DQUOTE","#","$","%","&","'","(",")","*","+",",","-",".","/",
      "0","1","2","3","4","5","6","7","8","9",":",";","<","=",">","?",
      "@","A","B","C","D","E","F","G","H","I","J","K","L","M","N","O",
      "P","Q","R","S","T","U","V","W","X","Y","Z","[","BACKSLASH","]","^","_",
      "BACKTICK","a","b","c","d","e","f","g","h","i","j","k","l","m","n","o",
      "p","q","r","s","t","u","v","w","x","y","z","{","|","}","~">>

HexDigits == <<"0","1","2","3","4","5","6","7","8","9","A","B","C","D","E","F">>

HexValue(c) == IndexIn(HexDigits, ToUpperChar(c))

\* decodeURIComponent.  "%XY" with hex digits X, Y stands for one byte; a
\* '%' not followed by two hex digits throws URIError, and so does a byte
\* of 0x80 or more that starts no valid UTF-8 sequence.  Escapes of control
\* characters and of multi-byte sequences are outside the modelled inputs.
RECURSIVE decodeURIComponent(_)
decodeURIComponent(s) ==
    IF s = <<>> THEN [threw |-> FALSE, str |-> <<>>]
    ELSE IF Head(s) # "%"
         THEN LET rest == decodeURIComponent(Tail(s))
              IN  IF rest.threw THEN rest
                  ELSE [threw |-> FALSE, str |-> <<Head(s)>> \o rest.str]
         ELSE IF Len(s) < 3 \/ HexValue(s[2]) < 0 \/ HexValue(s[3]) < 0
              THEN [threw |-> TRUE, str |-> <<>>]
              ELSE LET byte == 16 * HexValue(s[2]) + HexValue(s[3])
                       rest == decodeURIComponent(SubSeq(s, 4, Len(s)))
                   IN  IF byte < 32 \/ byte > 126 \/ rest.threw
                       THEN [threw |-> TRUE, str |-> <<>>]
                       ELSE [threw |-> FALSE, str |-> <<Ascii[byte - 31]>> \o rest.str]

\* String.prototype.slice(1)
SliceFrom1(s) == IF s = <<>> THEN <<>> ELSE Tail(s)

\* String.prototype.split(sep) for a one-character separator.
RECURSIVE Split(_, _)
Split(s, sep) ==
    LET at == { i \in 1..Len(s) : s[i] = sep }
    IN  IF at = {} THEN << s >>
        ELSE LET i == CHOOSE k \in at : \A j \in at : k <= j
             IN  << SubSeq(s, 1, i - 1) >> \o Split(SubSeq(s, i + 1, Len(s)), sep)

\* Array.prototype.join(sep)
RECURSIVE Join(_, _)
Join(parts, sep) ==
    IF parts = <<>> THEN <<>>
    ELSE IF Len(parts) = 1 THEN parts[1]
    ELSE parts[1] \o <<sep>> \o Join(Tail(parts), sep)

\* parseInt(s, 10): leading whitespace is skipped, a sign is read, then the
\* longest run of decimal digits; NaN when there is none.
RECURSIVE SkipWhiteSpace(_)
SkipWhiteSpace(s) ==
    IF s # <<>> /\ Head(s) \in WhiteSpace THEN SkipWhiteSpace(Tail(s)) ELSE s

RECURSIVE DigitRun(_)
DigitRun(s) ==
    IF s # <<>> /\ IndexIn(Digits, Head(s)) >= 0
    THEN <<Head(s)>> \o DigitRun(Tail(s))
    ELSE <<>>

RECURSIVE DigitsToInt(_)
DigitsToInt(s) ==
    IF s = <<>> THEN 0
    ELSE 10 * DigitsToInt(SubSeq(s, 1, Len(s) - 1)) + IndexIn(Digits, s[Len(s)])

parseInt(str) ==
    LET t    == SkipWhiteSpace(str)
        neg  == t # <<>> /\ Head(t) = "-"
        body == IF t # <<>> /\ Head(t) \in {"-", "+"} THEN Tail(t) ELSE t
        run  == DigitRun(body)
    IN  IF run = <<>> THEN NaN
        ELSE Num(IF neg THEN -DigitsToInt(run) ELSE DigitsToInt(run))

(***************************************************************************)
(* parseOtpAuthUrl.  The result is the returned object, or null; outcome   *)
(* "threw" is an exception leaving the function.                           *)
(***************************************************************************)
otpauthProtocol == <<"o","t","p","a","u","t","h",":">>
totpHost == <<"t","o","t","p">>

ParseNull == [outcome |-> "null", issuer |-> <<>>, account |-> <<>>, secret |-> <<>>,
              digits |-> NaN, period |-> NaN]
ParseThrew == [ParseNull EXCEPT !.outcome = "threw"]

\* account = parts[1] in place of parts.slice(1).join(":")
LabelAccountSecondPart(path) == Split(path, ":")[2]

\* parts.slice(1).join(":") for a path that includes ":"
LabelAccount(path) == Join(Tail(Split(path, ":")), ":")

\* The body of the try block.
ParseBody(url) ==
    LET parsed == NewURL(url)
    IN  IF parsed.threw THEN ParseThrew
        ELSE IF parsed.protocol # otpauthProtocol THEN ParseNull
        ELSE IF parsed.host # totpHost THEN ParseNull
        ELSE
        LET decoded == decodeURIComponent(SliceFrom1(parsed.pathname))
            path    == decoded.str
            secret  == SearchParamsGet(parsed.searchParams, "secret")
            issuer0 == OrElse(SearchParamsGet(parsed.searchParams, "issuer"), <<>>)
            hasSep  == \E i \in 1..Len(path) : path[i] = ":"
            issuer  == IF hasSep /\ issuer0 = <<>> THEN Split(path, ":")[1] ELSE issuer0
            account == IF hasSep THEN LabelAccount(path) ELSE path
            digits  == parseInt(OrElse(SearchParamsGet(parsed.searchParams, "digits"),
                                       <<"6">>))
            period  == parseInt(OrElse(SearchParamsGet(parsed.searchParams, "period"),
                                       <<"3","0">>))
        IN  IF decoded.threw THEN ParseThrew
            ELSE IF secret.isNull \/ secret.str = <<>> THEN ParseNull
            ELSE [outcome |-> "value", issuer |-> issuer, account |-> account,
                  secret |-> secret.str, digits |-> digits, period |-> period]

parseOtpAuthUrlNoCatch(url) == ParseBody(url)

\* try { ... } catch { return null; }
parseOtpAuthUrl(url) ==
    LET r == ParseBody(url)
    IN  IF r.outcome = "threw" THEN ParseNull ELSE r

(***************************************************************************)
(* Texts as the command line and the clipboard hold them.                  *)
(***************************************************************************)
\* The names of the query parameters, as characters.
NameChars(name) ==
    CASE name = "secret" -> <<"s","e","c","r","e","t">>
      [] name = "issuer" -> <<"i","s","s","u","e","r">>
      [] name = "digits" -> <<"d","i","g","i","t","s">>
      [] name = "period" -> <<"p","e","r","i","o","d">>

RECURSIVE RawQuery(_)
RawQuery(query) ==
    IF query = <<>> THEN <<>>
    ELSE NameChars(query[1].name) \o <<"=">> \o query[1].value
         \o (IF Len(query) > 1 THEN <<"&">> \o RawQuery(Tail(query)) ELSE <<>>)

\* The characters of a text.
RawText(text) ==
    IF text.kind = "url"
    THEN text.scheme \o <<":", "/", "/">> \o text.host \o text.pathname
         \o (IF text.query = <<>> THEN <<>> ELSE <<"?">> \o RawQuery(text.query))
    ELSE text.chars

startsWith(s, prefix) ==
    Len(s) >= Len(prefix) /\ SubSeq(s, 1, Len(prefix)) = prefix

RECURSIVE trimEnd(_)
trimEnd(s) ==
    IF s # <<>> /\ s[Len(s)] \in WhiteSpace THEN trimEnd(SubSeq(s, 1, Len(s) - 1)) ELSE s

trim(s) == trimEnd(SkipWhiteSpace(s))

otpauthPrefix == <<"o","t","p","a","u","t","h",":","/","/">>

\* What the clipboard holds: [hasText, text] for its text, and the payload
\* of a QR image on it (qr, null when there is none or it does not decode).
\* readTextFromClipboard: text.trim() || null; a failing clipboard tool is
\* a clipboard without text.
readTextFromClipboard(clipboard) ==
    IF ~clipboard.hasText \/ trim(RawText(clipboard.text)) = <<>>
    THEN [isNull |-> TRUE, text |-> [kind |-> "text", chars |-> <<>>]]
    ELSE [isNull |-> FALSE,
          text |-> IF clipboard.text.kind = "url" THEN clipboard.text
                   ELSE [kind |-> "text", chars |-> trim(clipboard.text.chars)]]

\* /^[A-Z2-7]+$/.test(cleaned) && cleaned.length >= 16
isValidBase32(str) ==
    LET cleaned == StripTrailingPad(StripWhiteSpace(toUpperCase(str)))
    IN  /\ cleaned # <<>>
        /\ \A i \in 1..Len(cleaned) : IndexIn(alphabet, cleaned[i]) >= 0
        /\ Len(cleaned) >= 16

\* text.replace(/\s/g, "").replace(/=+$/, "")
cleanedKey(str) == StripTrailingPad(StripWhiteSpace(str))

(***************************************************************************)
(* storage.ts.  The file is missing or holds the account list as JSON.     *)
(***************************************************************************)
\* JSON.stringify writes NaN as null.
JsonNumber(v) == IF v.kind \in {"NaN", "Infinity"} THEN JsonNull ELSE v

readStorage(f) == IF f.exists THEN f.accounts ELSE <<>>

writeStorage(accounts) ==
    [exists |-> TRUE,
     accounts |-> [i \in 1..Len(accounts) |->
                     [accounts[i] EXCEPT !.digits = JsonNumber(@),
                                         !.period = JsonNumber(@)]]]

getAccounts(f) == readStorage(f)

\* What readStorage returns when file.exists() or file.json() throws: the
\* catch is empty and the default store follows.
readStorageFailed == <<>>

\* addAccount from its push on: data is the account list readStorage
\* returned, id stands for crypto.randomUUID() and stamp for Date.now().
addAccountTo(data, account, id, stamp) ==
    writeStorage(Append(data, [id |-> id, issuer |-> account.issuer,
                               account |-> account.account,
                               secret |-> account.secret,
                               digits |-> account.digits,
                               period |-> account.period,
                               createdAt |-> stamp]))

\* addAccount: the file after the call.
addAccount(f, account, id, stamp) ==
    addAccountTo(readStorage(f), account, id, stamp)

removeAccountKeepsTarget(f, id) ==
    LET data == readStorage(f)
        kept == SelectSeq(data, LAMBDA a : a.id = id)
    IN  IF Len(kept) # Len(data)
        THEN [file |-> writeStorage(kept), result |-> TRUE]
        ELSE [file |-> f, result |-> FALSE]

\* removeAccount: the file after the call and the value returned.
removeAccount(f, id) ==
    LET data == readStorage(f)
        kept == SelectSeq(data, LAMBDA a : a.id # id)
    IN  IF Len(kept) # Len(data)
        THEN [file |-> writeStorage(kept), result |-> TRUE]
        ELSE [file |-> f, result |-> FALSE]

\* accounts.findIndex((a) => a.id === id), 1-based, 0 for -1.
RECURSIVE FindIndexFrom(_, _, _)
FindIndexFrom(accounts, id, i) ==
    IF i > Len(accounts) THEN 0
    ELSE IF accounts[i].id = id THEN i
    ELSE FindIndexFrom(accounts, id, i + 1)

findIndex(accounts, id) == FindIndexFrom(accounts, id, 1)

\* { ...account, ...updates }: updates is a record of some of the fields.
Spread(account, updates) ==
    [k \in DOMAIN account |->
        IF k \in DOMAIN updates THEN updates[k] ELSE account[k]]

\* updateAccount: the file after the call and the value returned (isNull
\* for null).
updateAccount(f, id, updates) ==
    LET data == readStorage(f)
        index == findIndex(data, id)
        updated == [data EXCEPT ![index] = Spread(data[index], updates)]
    IN  IF index = 0
        THEN [file |-> f, isNull |-> TRUE, result |-> <<>>]
        ELSE [file |-> writeStorage(updated), isNull |-> FALSE,
              result |-> updated[index]]

(***************************************************************************)
(* cmdAdd: what the command decides.  do is "add" with the account handed  *)
(* to addAccount, or "exit" for process.exit(1).                           *)
(***************************************************************************)
Unknown == <<"U","n","k","n","o","w","n">>

FromParsed(parsed) ==
    [issuer |-> IF parsed.issuer = <<>> THEN Unknown ELSE parsed.issuer,
     account |-> parsed.account, secret |-> parsed.secret,
     digits |-> parsed.digits, period |-> parsed.period]

FromKey(name, key) ==
    [issuer |-> <<>>, account |-> name, secret |-> toUpperCase(key),
     digits |-> Num(6), period |-> Num(30)]

NoAccount == [issuer |-> <<>>, account |-> <<>>, secret |-> <<>>,
              digits |-> Num(0), period |-> Num(0)]
DoAdd(account) == [do |-> "add", account |-> account]
DoExit == [do |-> "exit", account |-> NoAccount]

IsFlag(arg, short, long) == RawText(arg) = short \/ RawText(arg) = long

\* The loop over args: st = [secret, name, fromClipboard], i is 1-based.
RECURSIVE ParseArgs(_, _, _)
ParseArgs(args, i, st) ==
    IF i > Len(args) THEN st
    ELSE LET arg == args[i]
         IN  IF IsFlag(arg, <<"-","c">>, <<"-","-","c","l","i","p","b","o","a","r","d">>)
             THEN ParseArgs(args, i + 1, [st EXCEPT !.fromClipboard = TRUE])
             ELSE IF IsFlag(arg, <<"-","n">>, <<"-","-","n","a","m","e">>)
             THEN ParseArgs(args, i + 2,
                            [st EXCEPT !.name =
                                IF i + 1 <= Len(args) THEN Str(RawText(args[i + 1]))
                                ELSE Null])
             ELSE IF ~startsWith(RawText(arg), <<"-">>)
             THEN ParseArgs(args, i + 1,
                            [st EXCEPT !.secret = [isNull |-> FALSE, text |-> arg]])
             ELSE ParseArgs(args, i + 1, st)

NoText == [isNull |-> TRUE, text |-> [kind |-> "text", chars |-> <<>>]]

\* What the add-from-clipboard code finds, in the order it looks: a text
\* that starts with otpauth:// and parses ("uri"), a text that is a base32
\* key ("key"), else the payload of a QR image: none ("nothing"), one that
\* does not parse ("badqr"), one that parses ("qr").  `2fa add -c` and
\* handleAddFromClipboard look in the same way.
NoFinding == [found |-> "nothing", account |-> NoAccount, key |-> <<>>]

ClipboardFinding(clipboard) ==
    LET clipboardText == readTextFromClipboard(clipboard)
        raw      == RawText(clipboardText.text)
        parsed   == parseOtpAuthUrl(clipboardText.text)
        key      == cleanedKey(raw)
        qrData   == clipboard.qr
        qrParsed == parseOtpAuthUrl(qrData.text)
    IN  IF ~clipboardText.isNull /\ startsWith(raw, otpauthPrefix)
           /\ parsed.outcome = "value"
        THEN [NoFinding EXCEPT !.found = "uri", !.account = FromParsed(parsed)]
        ELSE IF ~clipboardText.isNull /\ isValidBase32(key)
        THEN [NoFinding EXCEPT !.found = "key", !.key = key]
        ELSE IF qrData.isNull \/ RawText(qrData.text) = <<>> THEN NoFinding
        ELSE IF qrParsed.outcome # "value" THEN [NoFinding EXCEPT !.found = "badqr"]
        ELSE [NoFinding EXCEPT !.found = "qr", !.account = FromParsed(qrParsed)]

\* The branch of cmdAdd for -c.
CmdAddFromClipboard(name, finding) ==
    IF finding.found \in {"uri", "qr"} THEN DoAdd(finding.account)
    ELSE IF finding.found = "key"
    THEN (IF name.isNull \/ name.str = <<>> THEN DoExit
          ELSE DoAdd(FromKey(name.str, finding.key)))
    ELSE DoExit

cmdAdd(args, finding) ==
    LET st == ParseArgs(args, 1, [secret |-> NoText, name |-> Null,
                                  fromClipboard |-> FALSE])
        raw    == RawText(st.secret.text)
        parsed == parseOtpAuthUrl(st.secret.text)
        key    == cleanedKey(raw)
    IN  IF st.fromClipboard THEN CmdAddFromClipboard(st.name, finding)
        ELSE IF st.secret.isNull \/ raw = <<>> THEN DoExit
        ELSE IF startsWith(raw, otpauthPrefix)
        THEN (IF parsed.outcome # "value" THEN DoExit ELSE DoAdd(FromParsed(parsed)))
        ELSE IF ~isValidBase32(key) THEN DoExit
        ELSE IF st.name.isNull \/ st.name.str = <<>> THEN DoExit
        ELSE DoAdd(FromKey(st.name.str, key))

(***************************************************************************)
(* The other commands and runCli.  A run ends as [file, out, exit, threw,  *)
(* copied, handled]: the file it leaves, the codes it printed (error and   *)
(* status messages are left out), its exit status, whether it ended in a   *)
(* rejected promise, what it put on the clipboard, and runCli's return     *)
(* value (false launches the TUI).                                         *)
(***************************************************************************)
Ran(f) == [file |-> f, out |-> <<>>, exit |-> 0, threw |-> FALSE,
           copied |-> Null, handled |-> TRUE]

Exit1(f) == [Ran(f) EXCEPT !.exit = 1]

\* s.includes(sub)
includes(s, sub) ==
    \E i \in 1..(Len(s) - Len(sub) + 1) : SubSeq(s, i, i + Len(sub) - 1) = sub

\* The id of an account as the string crypto.randomUUID() returned.
IdText(id) == <<"u","u","i","d","-">> \o toString(id)

findAccountFirstField(accounts, query) ==
    LET lowerQuery == toLowerCase(query)
        hits == SelectSeq(accounts, LAMBDA a :
                    \/ includes(toLowerCase(a.account), lowerQuery)
                    \/ IdText(a.id) = query)
    IN  IF hits = <<>> THEN [isNull |-> TRUE, account |-> <<>>]
        ELSE [isNull |-> FALSE, account |-> hits[1]]

\* findAccount: the first account that matches, or null.
findAccount(accounts, query) ==
    LET lowerQuery == toLowerCase(query)
        hits == SelectSeq(accounts, LAMBDA a :
                    \/ includes(toLowerCase(a.account), lowerQuery)
                    \/ includes(toLowerCase(a.issuer), lowerQuery)
                    \/ IdText(a.id) = query)
    IN  IF hits = <<>> THEN [isNull |-> TRUE, account |-> <<>>]
        ELSE [isNull |-> FALSE, account |-> hits[1]]

\* code.replace(/(.{3})/g, "$1 ").trim()
RECURSIVE GroupThree(_)
GroupThree(code) ==
    IF Len(code) < 3 THEN code
    ELSE SubSeq(code, 1, 3) \o <<" ">> \o GroupThree(SubSeq(code, 4, Len(code)))

formattedCode(code) == trim(GroupThree(code))

\* account.issuer ? `${account.issuer} (${account.account})` : account.account
DisplayName(account) ==
    IF account.issuer = <<>> THEN account.account
    ELSE account.issuer \o <<" ", "(">> \o account.account \o <<")">>

\* The loop of cmdList from the i-th account on; a rejected generateTOTP
\* ends the command there.
RECURSIVE ListFrom(_, _, _, _)
\* One turn of the loop, generateTOTP having settled as code.
ListLine(accounts, i, now, run, code) ==
    IF code.status = "rejected" THEN [run EXCEPT !.threw = TRUE]
    ELSE ListFrom(accounts, i + 1, now,
                  [run EXCEPT !.out = Append(@,
                      [id |-> accounts[i].id,
                       code |-> formattedCode(code.code),
                       name |-> DisplayName(accounts[i])])])

ListFrom(accounts, i, now, run) ==
    IF i > Len(accounts) THEN run
    ELSE ListLine(accounts, i, now, run,
                  generateTOTP(accounts[i].secret, accounts[i].digits,
                               accounts[i].period, now))

\* cmdList saving the list it has read before it prints.
cmdListSaves(f, now) ==
    ListFrom(getAccounts(f), 1, now, Ran(writeStorage(getAccounts(f))))

cmdList(f, now) == ListFrom(getAccounts(f), 1, now, Ran(f))

\* console.log(code) once generateTOTP has settled as code.
Printed(f, account, code) ==
    IF code.status = "rejected" THEN [Ran(f) EXCEPT !.threw = TRUE]
    ELSE [Ran(f) EXCEPT !.out = << [id |-> account.id, code |-> code.code,
                                   name |-> <<>>] >>]

\* The code of one account printed on a line of its own.
PrintCode(f, account, now) ==
    Printed(f, account,
            generateTOTP(account.secret, account.digits, account.period, now))

\* The command goes on with the account findAccount returned.
WithFound(f, query, found, run) ==
    IF query.isNull \/ query.str = <<>> THEN Exit1(f)
    ELSE IF found.isNull THEN Exit1(f)
    ELSE run

\* query is [isNull, str]: args[1], undefined when there is no such argument.
GetFound(f, query, found, now) ==
    WithFound(f, query, found, PrintCode(f, found.account, now))

cmdGet(f, query, now) ==
    GetFound(f, query, findAccount(getAccounts(f), query.str), now)

\* copyToClipboard(code) and the line that names the account.
Copied(printed, account) ==
    IF printed.threw THEN printed
    ELSE [printed EXCEPT !.copied = Str(printed.out[1].code),
                         !.out = << [@[1] EXCEPT !.name = DisplayName(account)] >>]

CopyFound(f, query, found, now) ==
    WithFound(f, query, found, Copied(PrintCode(f, found.account, now), found.account))

cmdCopy(f, query, now) ==
    CopyFound(f, query, findAccount(getAccounts(f), query.str), now)

RemoveFound(f, query, found) ==
    WithFound(f, query, found, Ran(removeAccount(f, found.account.id).file))

cmdRemove(f, query) ==
    RemoveFound(f, query, findAccount(getAccounts(f), query.str))

\* args[i], 0-based in the code and 1-based here: undefined past the end.
Arg(args, i) == IF i <= Len(args) THEN Str(RawText(args[i])) ELSE Null

\* args.includes(a) || args.includes(b) || args.includes(c)
IncludesAny(args, words) == \E i \in 1..Len(args) : RawText(args[i]) \in words

HelpWords == { <<"-","h">>, <<"-","-","h","e","l","p">>, <<"h","e","l","p">> }
VersionWords == { <<"-","v">>, <<"-","-","v","e","r","s","i","o","n">>, <<"v","e","r","s","i","o","n">> }

\* The default branch of runCli's switch: a command that is no command is
\* taken as a query.
DefaultFound(f, command, found, now) ==
    IF ~startsWith(command, <<"-">>) /\ ~found.isNull
    THEN PrintCode(f, found.account, now)
    ELSE Exit1(f)

\* The default branch printing the code the way cmdList formats it.
runCliDefaultFormatted(f, command, now) ==
    LET run == DefaultFound(f, command, findAccount(getAccounts(f), command), now)
    IN  IF run.out = <<>> THEN run
        ELSE [run EXCEPT !.out = << [@[1] EXCEPT !.code = formattedCode(@)] >>]

runCliDefault(f, command, now) ==
    DefaultFound(f, command, findAccount(getAccounts(f), command), now)

\* `add`: cmdAdd has decided to add an account or to exit.
RunAdd(f, added, id) ==
    IF added.do = "add" THEN Ran(addAccount(f, added.account, id, id)) ELSE Exit1(f)

\* runCli(args) over the file f at time now; finding is what the clipboard
\* holds and id the next random id, for `add`.
runCli(args, f, now, finding, id) ==
    LET command == Arg(args, 1)
    IN  IF IncludesAny(args, HelpWords) THEN Ran(f)
        ELSE IF IncludesAny(args, VersionWords) THEN Ran(f)
        ELSE IF command.isNull \/ command.str = <<>> \/ command.str = <<"t","u","i">>
        THEN [Ran(f) EXCEPT !.handled = FALSE]
        ELSE IF command.str \in { <<"l","i","s","t">>, <<"l","s">> } THEN cmdList(f, now)
        ELSE IF command.str = <<"a","d","d">>
        THEN RunAdd(f, cmdAdd(Tail(args), finding), id)
        ELSE IF command.str = <<"g","e","t">> THEN cmdGet(f, Arg(args, 2), now)
        ELSE IF command.str \in { <<"c","o","p","y">>, <<"c","p">> } THEN cmdCopy(f, Arg(args, 2), now)
        ELSE IF command.str \in { <<"r","e","m","o","v","e">>, <<"r","m">>, <<"d","e","l","e","t","e">> }
        THEN cmdRemove(f, Arg(args, 2))
        ELSE runCliDefault(f, command.str, now)

(***************************************************************************)
(* The App component: its state is [view, accounts, selectedIndex,         *)
(* loading, pendingSecret, accountName]; the message line is left out.     *)
(***************************************************************************)
\* refreshAccounts at time now: the list with codes for setAccounts, or
\* failed when Promise.all rejects because one generateTOTP call rejects.
\* Promise.all over the generateTOTP calls of the stored accounts, which
\* end as results.
refreshAccountsOf(stored, results) ==
    IF \E i \in 1..Len(stored) : results[i].status = "rejected"
    THEN [failed |-> TRUE, accounts |-> <<>>]
    ELSE [failed |-> FALSE,
          accounts |-> [i \in 1..Len(stored) |->
                          [id |-> stored[i].id, code |-> results[i].code]]]

refreshAccounts(f, now) ==
    refreshAccountsOf(getAccounts(f),
        [i \in 1..Len(getAccounts(f)) |->
            generateTOTP(getAccounts(f)[i].secret, getAccounts(f)[i].digits,
                         getAccounts(f)[i].period, now)])

\* The state updates both add handlers make once addAccount has written f2:
\* refreshAccounts, then setView("list") and the rest, which a rejected
\* refresh skips.
AfterAdd(app, f2, now, done) ==
    LET r == refreshAccounts(f2, now)
    IN  IF r.failed THEN app
        ELSE [done EXCEPT !.accounts = r.accounts]

(***************************************************************************)
(* State.  Each component has its own variable; a specification drives one *)
(* component and leaves the others idle.                                   *)
(*   b32    base32Decode applied to an input string                        *)
(*   totp   generateTOTP called at the times of a running clock            *)
(*   timer  getTimeRemaining read once per second                          *)
(*   url    parseOtpAuthUrl applied to a text                              *)
(*   file, nextId, tui   the storage file, the number of ids handed out    *)
(*          so far, and the state of the App component                     *)
(*   last   the last command, storage call or timer tick that ran, with    *)
(*          what it printed or returned                                    *)
(*   procs  the addAccount calls in progress, each between its awaits      *)
(*   task   the handleAddFromClipboard call in progress, between its       *)
(*          awaits                                                         *)
(***************************************************************************)
VARIABLES b32, totp, timer, url, file, nextId, tui, last, procs, task

vars == <<b32, totp, timer, url, file, nextId, tui, last, procs, task>>
coreVars == <<b32, totp, timer, url>>
runVars == <<last, procs, task>>
appVars == <<file, nextId, tui, runVars>>

NoCall == [at |-> -1, result |-> [status |-> "none", error |-> "", code |-> <<>>,
                                  signed |-> FALSE]]

B32Idle   == [encoded |-> <<>>, called |-> FALSE, output |-> <<>>]
TotpIdle  == [secret |-> <<>>, digits |-> Num(6), period |-> Num(30), now |-> 0,
              ticks |-> 0, last |-> NoCall, prev |-> NoCall]
TimerIdle == [period |-> 30, now |-> 0, remaining |-> 30, ticks |-> 0]
UrlIdle   == [text |-> [kind |-> "text", chars |-> <<>>], called |-> FALSE,
              result |-> ParseNull]

\* The App component after it has mounted over an empty store.
AppStart == [view |-> "list", accounts |-> <<>>, selectedIndex |-> 0,
             loading |-> FALSE, pendingSecret |-> Null, accountName |-> <<>>,
             now |-> 0]

\* Nothing has run yet, no addAccount call and no handler is in progress.
NoRun == [op |-> "none"]
Procs == {1, 2}
ProcIdle == [pc |-> "idle", data |-> <<>>, account |-> NoAccount, id |-> 0]
TaskIdle == [pc |-> "idle", finding |-> NoFinding]

AppIdle ==
    /\ file = [exists |-> FALSE, accounts |-> <<>>]
    /\ nextId = 1
    /\ tui = AppStart
    /\ last = NoRun
    /\ procs = [p \in Procs |-> ProcIdle]
    /\ task = TaskIdle

(***************************************************************************)
(* SpecBase32: base32Decode on every string of at most MaxLen characters   *)
(* over B32Chars (a symbol of value 31, a lower-case symbol, padding and   *)
(* whitespace), and on B32Extra: strings with characters outside the       *)
(* alphabet, tabs and newlines, mixed case, and the RFC 4648 examples.     *)
(***************************************************************************)
B32Chars == {"7", "b", "=", " "}

B32Extra ==
    { <<"M","F","R","G","G","=","=","=">>,
      <<"m","f","r","g","g","=","=","=">>,
      <<"M","Y","=","=","=","=","=","=">>,
      <<"G","E","Z","D","G","N","B","V","G","Y","3","T","Q","O","J","Q">>,
      <<"1">>, <<"0","8","9","!">>, <<"-","_","1">>,
      <<"M","1","F","!","R","-","G","0","G">>,
      <<"7","1","b","7","!","Z","7","\t","7","=","7","8","a">>,
      <<"=","M","F","=","R","G","G","=","\n">>,
      <<"J","B","S","W","Y","3","D","P","E","H","P","K","3","P","X","P">>,
      <<"j","b","s","w"," ","y","3","d","p"," ","e","h","p","k"," ","3","p","x","p">> }

InitBase32 ==
    /\ b32 \in { [encoded |-> e, called |-> FALSE, output |-> <<>>] :
                 e \in SeqsUpTo(B32Chars, MaxLen) \cup B32Extra }
    /\ totp = TotpIdle
    /\ timer = TimerIdle
    /\ url = UrlIdle
    /\ AppIdle

Decode ==
    /\ ~b32.called
    /\ b32' = [b32 EXCEPT !.called = TRUE, !.output = base32Decode(b32.encoded)]
    /\ UNCHANGED <<totp, timer, url, appVars>>

NextBase32 == Decode

SpecBase32 == InitBase32 /\ [][NextBase32]_vars

(***************************************************************************)
(* SpecTotp: generateTOTP with fixed arguments, called at the times of a   *)
(* clock that advances in half seconds.  The secrets cover the empty       *)
(* decodings (empty, whitespace, padding, invalid characters, one symbol)  *)
(* and keys of several lengths; the periods cover <= 0.                    *)
(***************************************************************************)
TotpSecrets ==
    { <<>>, <<" ">>, <<"=", "=">>, <<"1", "!">>, <<"A">>,
      <<"G","E","Z","D","G","N","B","V">>,
      <<"m","f","r","g","g","=","=","=">>,
      <<"J","B","S","W","Y","3","D","P","E","H","P","K","3","P","X","P">>,
      <<"7","7"," ","7","7">> }
TotpDigits  == { Num(6), Num(7), Num(8) }
TotpPeriods == { Num(-30), Num(0), Num(1), Num(30) }
TotpStarts  == { 0, 29000, 59000 }

InitTotp ==
    /\ totp \in { [secret |-> s, digits |-> d, period |-> p, now |-> t, ticks |-> 0,
                   last |-> NoCall, prev |-> NoCall] :
                  s \in TotpSecrets, d \in TotpDigits, p \in TotpPeriods,
                  t \in TotpStarts }
    /\ b32 = B32Idle
    /\ timer = TimerIdle
    /\ url = UrlIdle
    /\ AppIdle

\* Half a second passes.
TotpTick ==
    /\ totp.ticks < MaxTicks
    /\ totp' = [totp EXCEPT !.now = @ + 500, !.ticks = @ + 1]
    /\ UNCHANGED <<b32, timer, url, appVars>>

\* A caller awaits generateTOTP(secret, digits, period) now.
Generate ==
    /\ totp' = [totp EXCEPT
                  !.prev = totp.last,
                  !.last = [at |-> totp.now,
                            result |-> generateTOTP(totp.secret, totp.digits,
                                                    totp.period, totp.now)]]
    /\ UNCHANGED <<b32, timer, url, appVars>>

NextTotp == TotpTick \/ Generate

SpecTotp == InitTotp /\ [][NextTotp]_vars

(***************************************************************************)
(* SpecClock: getTimeRemaining(period) read at start and then once per     *)
(* second, as the interval timer of the display does.                      *)
(***************************************************************************)
ClockPeriods == { 1, 2, 7, 30 }
ClockStarts  == { 0, 500, 25999 }

InitClock ==
    /\ timer \in { [period |-> p, now |-> t, remaining |-> getTimeRemaining(p, t),
                    ticks |-> 0] : p \in ClockPeriods, t \in ClockStarts }
    /\ b32 = B32Idle
    /\ totp = TotpIdle
    /\ url = UrlIdle
    /\ AppIdle

ClockTick ==
    /\ timer.ticks < MaxSeconds
    /\ timer' = [timer EXCEPT
                   !.now = @ + 1000,
                   !.ticks = @ + 1,
                   !.remaining = getTimeRemaining(timer.period, timer.now + 1000)]
    /\ UNCHANGED <<b32, totp, url, appVars>>

NextClock == ClockTick

SpecClock == InitClock /\ [][NextClock]_vars

(***************************************************************************)
(* SpecUrl: parseOtpAuthUrl on texts built from every combination of the   *)
(* parts below, and on texts that are no URL.                              *)
(***************************************************************************)
Param(name, value) == [name |-> name, value |-> value]

\* The query with the parameters that are present (not null), in the order
\* secret, issuer, digits, period.
QueryOf(secret, issuer, digits, period) ==
    (IF secret.isNull THEN <<>> ELSE << Param("secret", secret.str) >>)
    \o (IF issuer.isNull THEN <<>> ELSE << Param("issuer", issuer.str) >>)
    \o (IF digits.isNull THEN <<>> ELSE << Param("digits", digits.str) >>)
    \o (IF period.isNull THEN <<>> ELSE << Param("period", period.str) >>)

UrlSchemes == { <<"o","t","p","a","u","t","h">>, <<"O","T","P","A","U","T","H">>, <<"h","t","t","p","s">> }
UrlHosts   == { <<"t","o","t","p">>, <<"T","O","T","P">>, <<"h","o","t","p">> }
UrlPaths   == { <<>>, <<"/","a","l","i","c","e">>, <<"/","G","i","t","H","u","b",":","a","l","i","c","e">>, <<"/","G","i","t",":","a",":","b">>, <<"/","G","i","t","%","3","A","a","l","%","2","0","x">>, <<"/","%","z","z">>,
                <<"/","a","%","4">>, <<"/",":","b","o","b">> }
UrlSecrets == { Null, Str(<<>>), Str(<<"J","B","S","W","Y","3","D","P","E","H","P","K","3","P","X","P">>), Str(<<"A">>) }
UrlIssuers == { Null, Str(<<>>), Str(<<"A","c","m","e">>) }
UrlDigits  == { Null, Str(<<>>), Str(<<"8">>), Str(<<"a","b","c">>), Str(<<"0">>),
                Str(<<"6","x">>) }
UrlPeriods == { Null, Str(<<"6","0">>), Str(<<"x">>), Str(<<"0">>), Str(<<"-","5">>) }

UrlTexts ==
    { [kind |-> "url", scheme |-> sc, host |-> h, pathname |-> pa,
       query |-> QueryOf(se, is, di, pe)] :
      sc \in UrlSchemes, h \in UrlHosts, pa \in UrlPaths, se \in UrlSecrets,
      is \in UrlIssuers, di \in UrlDigits, pe \in UrlPeriods }

PlainTexts ==
    { [kind |-> "text", chars |-> c] :
      c \in { <<>>, <<"n","o","t","-","a","-","u","r","i">>, <<"J","B","S","W","Y","3","D","P","E","H","P","K","3","P","X","P">> } }

InitUrl ==
    /\ url \in { [text |-> t, called |-> FALSE, result |-> ParseNull] :
                 t \in UrlTexts \cup PlainTexts }
    /\ b32 = B32Idle
    /\ totp = TotpIdle
    /\ timer = TimerIdle
    /\ AppIdle

ParseUrl ==
    /\ ~url.called
    /\ url' = [url EXCEPT !.called = TRUE, !.result = parseOtpAuthUrl(url.text)]
    /\ UNCHANGED <<b32, totp, timer, appVars>>

NextUrl == ParseUrl

SpecUrl == InitUrl /\ [][NextUrl]_vars

(***************************************************************************)
(* Spec: the store under the add paths: the `2fa add` command, and the     *)
(* keys of the App component that lead to handleAddFromClipboard and       *)
(* handleSaveKeyAccount.  Each command and each key handler runs to its    *)
(* end before the next one starts.                                         *)
(***************************************************************************)
Text(chars) == [kind |-> "text", chars |-> chars]
Uri(host, pathname, query) ==
    [kind |-> "url", scheme |-> <<"o","t","p","a","u","t","h">>, host |-> host, pathname |-> pathname,
     query |-> query]

GoodKey == <<"J","B","S","W","Y","3","D","P","E","H","P","K","3","P","X","P">>
SpacedKey == <<"j","b","s","w"," ","y","3","d","p"," ","e","h","p","k"," ","3","p","x","p","=","=">>
ShortKey == <<"J","B","S","W","Y","3","D","P">>

AddUris ==
    { Uri(<<"t","o","t","p">>, <<"/","G","i","t","H","u","b",":","a","l","i","c","e">>, << Param("secret", GoodKey), Param("issuer", <<"G","i","t","H","u","b">>) >>),
      Uri(<<"t","o","t","p">>, <<"/","x">>, << Param("secret", <<"A">>) >>),
      Uri(<<"t","o","t","p">>, <<"/","x">>, << Param("secret", GoodKey), Param("digits", <<"0">>) >>),
      Uri(<<"t","o","t","p">>, <<"/","x">>, << Param("secret", GoodKey), Param("digits", <<"a","b","c">>) >>),
      Uri(<<"t","o","t","p">>, <<"/","x">>, << Param("secret", GoodKey), Param("period", <<"0">>) >>),
      Uri(<<"h","o","t","p">>, <<"/","x">>, << Param("secret", GoodKey) >>) }

AddKeys == { Text(GoodKey), Text(SpacedKey), Text(ShortKey) }

NameArg == Text(<<"w","o","r","k">>)

NotAKey == Text(<<"h","e","l","l","o","!">>)

CliArgs ==
    { <<>>, << Text(<<"-","c">>) >>, << Text(<<"-","c">>), Text(<<"-","n">>), NameArg >>,
      << Text(<<"-","n">>) >> }
    \cup { << u >> : u \in AddUris }
    \cup { << k >> : k \in AddKeys }
    \cup { << k, Text(<<"-","n">>), NameArg >> : k \in AddKeys }

Clipboards ==
    { [hasText |-> FALSE, text |-> Text(<<>>), qr |-> NoText] }
    \cup { [hasText |-> TRUE, text |-> t, qr |-> NoText] :
           t \in AddUris \cup AddKeys \cup { NotAKey, Text(<<" ">>) } }
    \cup { [hasText |-> FALSE, text |-> Text(<<>>),
            qr |-> [isNull |-> FALSE, text |-> t]] :
           t \in AddUris \cup { NotAKey } }

Keys == { "a", "g", "enter", "escape", "backspace" }

\* What the clipboard can hold when it is read, and what `2fa add` can
\* decide over all command lines and clipboards.
Findings == { ClipboardFinding(c) : c \in Clipboards }

CliDecisions == { cmdAdd(args, finding) : args \in CliArgs, finding \in Findings }

Init ==
    /\ AppIdle
    /\ b32 = B32Idle
    /\ totp = TotpIdle
    /\ timer = TimerIdle
    /\ url = UrlIdle

\* One run of `2fa add ...` in a process of its own.
CliAdd ==
    \E decided \in CliDecisions :
        /\ decided.do = "add"
        /\ Len(readStorage(file)) < MaxAccounts
        /\ file' = addAccount(file, decided.account, nextId, nextId)
        /\ nextId' = nextId + 1
        /\ UNCHANGED <<tui, coreVars, runVars>>

\* `2fa add ...` that ends in process.exit(1): nothing is written.
CliAddExit ==
    \E decided \in CliDecisions :
        /\ decided.do = "exit"
        /\ UNCHANGED vars

\* handleAddFromClipboard: [app, file, added] after the handler.
handleAddFromClipboard(app, f, finding, id) ==
    LET added(account) ==
            LET f2 == addAccount(f, account, id, id)
            IN  [app |-> AfterAdd(app, f2, app.now, [app EXCEPT !.view = "list"]),
                 file |-> f2, added |-> TRUE]
    IN  IF finding.found \in {"uri", "qr"} THEN added(finding.account)
        ELSE IF finding.found = "key"
        THEN [app |-> [app EXCEPT !.pendingSecret = Str(toUpperCase(finding.key)),
                                  !.accountName = <<>>,
                                  !.view = "add-key"],
              file |-> f, added |-> FALSE]
        ELSE [app |-> app, file |-> f, added |-> FALSE]

\* handleSaveKeyAccount: [app, file, added] after the handler.
handleSaveKeyAccount(app, f, id) ==
    IF app.pendingSecret.isNull \/ app.pendingSecret.str = <<>>
       \/ trim(app.accountName) = <<>>
    THEN [app |-> app, file |-> f, added |-> FALSE]
    ELSE LET f2 == addAccount(f, [issuer |-> <<>>, account |-> trim(app.accountName),
                                  secret |-> app.pendingSecret.str,
                                  digits |-> Num(6), period |-> Num(30)], id, id)
         IN  [app |-> AfterAdd(app, f2, app.now,
                               [app EXCEPT !.pendingSecret = Null,
                                           !.accountName = <<>>,
                                           !.view = "list"]),
              file |-> f2, added |-> TRUE]

MathMax(a, b) == IF a >= b THEN a ELSE b
MathMin(a, b) == IF a <= b THEN a ELSE b

\* accounts[selectedIndex] is an element of the displayed list.
Selected(app) == app.selectedIndex \in 0..(Len(app.accounts) - 1)

\* handleCopyCode: the code handed to copyToClipboard, Null when the list is
\* empty or accounts[selectedIndex] is undefined and account.code throws.
handleCopyCode(app) ==
    IF Len(app.accounts) = 0 \/ ~Selected(app) THEN Null
    ELSE Str(app.accounts[app.selectedIndex + 1].code)

\* The key r in the list view: refreshAccounts is called and not awaited.
RefreshKey(app, f, r) ==
    [app |-> IF r.failed THEN app ELSE [app EXCEPT !.accounts = r.accounts],
     file |-> f, added |-> FALSE]

\* handleDelete once removeAccount has written removed.file and
\* refreshAccounts has ended as r; accounts.length is the length of the
\* list the callback was created with.
Deleted(app, removed, r) ==
    [app |-> IF r.failed THEN app
             ELSE [app EXCEPT
                     !.accounts = r.accounts,
                     !.selectedIndex = MathMax(0, MathMin(@, Len(app.accounts) - 2)),
                     !.view = "list"],
     file |-> removed.file, added |-> FALSE]

DeleteRemoved(app, removed) ==
    Deleted(app, removed, refreshAccounts(removed.file, app.now))

\* handleDelete: [app, file, added] after the handler.
handleDelete(app, f) ==
    IF Len(app.accounts) = 0 \/ ~Selected(app)
    THEN [app |-> app, file |-> f, added |-> FALSE]
    ELSE DeleteRemoved(app, removeAccount(f, app.accounts[app.selectedIndex + 1].id))

\* The list view's keys.
ListKey(app, f, e) ==
    LET only(a) == [app |-> a, file |-> f, added |-> FALSE]
    IN  IF e \in {"up", "k"}
        THEN only([app EXCEPT !.selectedIndex = MathMax(0, @ - 1)])
        ELSE IF e \in {"down", "j"}
        THEN only([app EXCEPT !.selectedIndex = MathMin(Len(app.accounts) - 1, @ + 1)])
        ELSE IF e = "a" THEN only([app EXCEPT !.view = "add"])
        ELSE IF e \in {"d", "delete"}
        THEN (IF Len(app.accounts) > 0
              THEN only([app EXCEPT !.view = "delete-confirm"]) ELSE only(app))
        ELSE IF e = "r" THEN RefreshKey(app, f, refreshAccounts(f, app.now))
        ELSE only(app)

\* The useKeyboard callback for the key named e: [app, file, added].
useKeyboard(app, f, e, finding, id) ==
    LET only(a) == [app |-> a, file |-> f, added |-> FALSE]
    IN  IF app.loading THEN only(app)
        ELSE IF app.view = "list" THEN ListKey(app, f, e)
        ELSE IF app.view = "delete-confirm"
        THEN (IF e = "y" THEN handleDelete(app, f)
              ELSE IF e \in {"n", "escape"} THEN only([app EXCEPT !.view = "list"])
              ELSE only(app))
        ELSE IF app.view = "add"
        THEN (IF e = "escape" THEN only([app EXCEPT !.view = "list"])
              ELSE IF e = "enter" THEN handleAddFromClipboard(app, f, finding, id)
              ELSE only(app))
        ELSE IF app.view = "add-key"
        THEN (IF e = "escape"
              THEN only([app EXCEPT !.pendingSecret = Null, !.accountName = <<>>,
                                    !.view = "list"])
              ELSE IF e = "enter" THEN handleSaveKeyAccount(app, f, id)
              ELSE IF e = "backspace"
              THEN only([app EXCEPT !.accountName =
                            IF @ = <<>> THEN <<>> ELSE SubSeq(@, 1, Len(@) - 1)])
              ELSE IF e \in {"a", "g"}
              THEN only([app EXCEPT !.accountName = Append(@, e)])
              ELSE only(app))
        ELSE only(app)

\* A key is pressed in the App component.  The clipboard is read only by
\* handleAddFromClipboard, on enter in the add view.
KeyPress ==
    \E e \in Keys :
      \E finding \in (IF tui.view = "add" /\ e = "enter" THEN Findings ELSE {NoFinding}) :
        LET after == useKeyboard(tui, file, e, finding, nextId)
        IN  /\ Len(readStorage(after.file)) <= MaxAccounts
            /\ Len(after.app.accountName) <= MaxName
            /\ tui' = after.app
            /\ file' = after.file
            /\ nextId' = IF after.added THEN nextId + 1 ELSE nextId
            /\ UNCHANGED <<coreVars, runVars>>

Next == CliAdd \/ CliAddExit \/ KeyPress

Spec == Init /\ [][Next]_vars

(***************************************************************************)
(* SpecStore: addAccount, removeAccount and updateAccount called one at a  *)
(* time on the storage file, every read succeeding.  SpecStoreFault adds   *)
(* the addAccount call whose readStorage fails.                            *)
(***************************************************************************)
MaxIds == 3

PeriodSeven == [FromKey(<<"b","o","b">>, GoodKey) EXCEPT
                   !.issuer = <<"G","i","t","L","a","b">>, !.period = Num(7)]

SampleAccounts ==
    { [FromKey(<<"a","l","i","c","e">>, GoodKey) EXCEPT
          !.issuer = <<"G","i","t","H","u","b">>],
      PeriodSeven }

Updates ==
    { <<>>,
      [issuer |-> <<"A","c","m","e">>],
      [account |-> <<"c","a","r","o","l">>, digits |-> Num(8)] }

Ids == 1..MaxIds

InitStore ==
    /\ AppIdle
    /\ b32 = B32Idle
    /\ totp = TotpIdle
    /\ timer = TimerIdle
    /\ url = UrlIdle

StoreAdd ==
    \E account \in SampleAccounts :
        /\ nextId <= MaxIds
        /\ Len(readStorage(file)) < MaxAccounts
        /\ file' = addAccount(file, account, nextId, nextId)
        /\ nextId' = nextId + 1
        /\ last' = [op |-> "addAccount", id |-> nextId, account |-> account,
                    readFailed |-> FALSE]
        /\ UNCHANGED <<tui, procs, task, coreVars>>

StoreRemove ==
    \E id \in Ids :
        LET done == removeAccount(file, id)
        IN  /\ file' = done.file
            /\ last' = [op |-> "removeAccount", id |-> id, result |-> done.result]
            /\ UNCHANGED <<nextId, tui, procs, task, coreVars>>

StoreUpdate ==
    \E id \in Ids, updates \in Updates :
        LET done == updateAccount(file, id, updates)
        IN  /\ file' = done.file
            /\ last' = [op |-> "updateAccount", id |-> id, updates |-> updates,
                        isNull |-> done.isNull, result |-> done.result]
            /\ UNCHANGED <<nextId, tui, procs, task, coreVars>>

NextStore == StoreAdd \/ StoreRemove \/ StoreUpdate

SpecStore == InitStore /\ [][NextStore]_vars

\* addAccount when the file is there but file.exists() or file.json()
\* throws (the file is not valid JSON, or cannot be read).
StoreAddReadFails ==
    \E account \in SampleAccounts :
        /\ file.exists
        /\ nextId <= MaxIds
        /\ file' = addAccountTo(readStorageFailed, account, nextId, nextId)
        /\ nextId' = nextId + 1
        /\ last' = [op |-> "addAccount", id |-> nextId, account |-> account,
                    readFailed |-> TRUE]
        /\ UNCHANGED <<tui, procs, task, coreVars>>

NextStoreFault == NextStore \/ StoreAddReadFails

SpecStoreFault == InitStore /\ [][NextStoreFault]_vars

(***************************************************************************)
(* SpecCli: runs of the 2fa command, one process after the other, over the *)
(* storage file.  last holds the command line of the last run and how it   *)
(* ended.                                                                  *)
(***************************************************************************)
Word(chars) == [kind |-> "text", chars |-> chars]

\* Two URIs to add: GitHub:alice with a good secret, and GitLab:helper with
\* a secret that decodes to no byte.
AliceUri ==
    Uri(<<"t","o","t","p">>, <<"/","G","i","t","H","u","b",":","a","l","i","c","e">>,
        << Param("secret", GoodKey) >>)
HelperUri ==
    Uri(<<"t","o","t","p">>, <<"/","G","i","t","L","a","b",":","h","e","l","p","e","r">>,
        << Param("secret", <<"A">>) >>)

Queries == { <<"g","i","t">>, <<"A","L","I","C","E">>, <<"u","u","i","d","-","2">>, <<"n","o","b","o","d","y">>, <<"l","i","s","t">>, <<"h","e","l","p">> }

AddLines == { << Word(<<"a","d","d">>), AliceUri >>, << Word(<<"a","d","d">>), HelperUri >> }

ShortLines == { << Word(q) >> : q \in Queries }

ReadLines ==
    { << Word(<<"l","i","s","t">>) >>, << Word(<<"g","e","t">>) >>, << Word(<<"c","o","p","y">>), Word(<<"g","i","t">>) >> }
    \cup ShortLines

RemoveLines ==
    { << Word(<<"r","m">>) >> } \cup { << Word(<<"r","e","m","o","v","e">>), Word(q) >> : q \in Queries }

OtherLines == { << Word(<<"t","u","i">>) >>, << Word(<<"-","x">>) >> }

CliTimes == { 29000 }

InitCli ==
    /\ AppIdle
    /\ b32 = B32Idle
    /\ totp = TotpIdle
    /\ timer = TimerIdle
    /\ url = UrlIdle

\* The run has ended as run: the file it left and what it printed.
CliRunEnds(args, now, run) ==
    /\ nextId <= MaxAccounts \/ Len(readStorage(run.file)) <= Len(readStorage(file))
    /\ file' = run.file
    /\ nextId' = IF Len(readStorage(run.file)) > Len(readStorage(file))
                 THEN nextId + 1 ELSE nextId
    /\ last' = [op |-> "runCli", args |-> args, now |-> now,
                out |-> run.out, exit |-> run.exit, threw |-> run.threw,
                copied |-> run.copied, handled |-> run.handled]
    /\ UNCHANGED <<tui, procs, task, coreVars>>

\* One run of the command with the arguments args.
CliRun(lines) ==
    \E args \in lines, now \in CliTimes :
        CliRunEnds(args, now, runCli(args, file, now, NoFinding, nextId))

CliAddRun == CliRun(AddLines)
CliReadRun == CliRun(ReadLines \cup OtherLines)
CliRemoveRun == CliRun(RemoveLines)

NextCli == CliAddRun \/ CliReadRun \/ CliRemoveRun

SpecCli == InitCli /\ [][NextCli]_vars

(***************************************************************************)
(* SpecRace: addAccount calls that overlap, from two CLI processes or two  *)
(* handlers of the App component.  A call gives up control at             *)
(* `await readStorage()` and again inside writeStorage, before Bun.write.  *)
(* last.returned holds the ids of the calls that have returned.            *)
(***************************************************************************)
InitRace ==
    /\ file = [exists |-> FALSE, accounts |-> <<>>]
    /\ nextId = 1
    /\ tui = AppStart
    /\ last = [op |-> "addAccount", returned |-> {}]
    /\ procs = [p \in Procs |-> ProcIdle]
    /\ task = TaskIdle
    /\ b32 = B32Idle
    /\ totp = TotpIdle
    /\ timer = TimerIdle
    /\ url = UrlIdle

\* addAccount is called: it awaits readStorage.
AddCall(p) ==
    \E account \in SampleAccounts :
        /\ procs[p].pc = "idle"
        /\ nextId <= MaxIds
        /\ procs' = [procs EXCEPT ![p] = [pc |-> "read", data |-> <<>>,
                                          account |-> account, id |-> nextId]]
        /\ nextId' = nextId + 1
        /\ UNCHANGED <<file, tui, last, task, coreVars>>

\* readStorage returns: the call holds the list it read, pushes its account
\* and awaits the write.
AddRead(p) ==
    /\ procs[p].pc = "read"
    /\ procs' = [procs EXCEPT ![p].pc = "write", ![p].data = readStorage(file)]
    /\ UNCHANGED <<file, nextId, tui, last, task, coreVars>>

\* Bun.write replaces the file with the list the call holds; the call
\* returns.
AddWrite(p) ==
    /\ procs[p].pc = "write"
    /\ file' = addAccountTo(procs[p].data, procs[p].account, procs[p].id,
                            procs[p].id)
    /\ last' = [last EXCEPT !.returned = @ \cup {procs[p].id}]
    /\ procs' = [procs EXCEPT ![p] = ProcIdle]
    /\ UNCHANGED <<nextId, tui, task, coreVars>>

NextRace == \E p \in Procs : AddCall(p) \/ AddRead(p) \/ AddWrite(p)

SpecRace == InitRace /\ [][NextRace]_vars

(***************************************************************************)
(* Reference definitions used to state the properties.                     *)
(***************************************************************************)
LowerAlphabet == <<"a","b","c","d","e","f","g","h","i","j","k","l","m","n","o","p",
                   "q","r","s","t","u","v","w","x","y","z","2","3","4","5","6","7">>

\* The 5-bit value of a base32 symbol in either case, -1 for any other character.
SymbolValue(c) ==
    LET at == { i \in 1..32 : alphabet[i] = c \/ LowerAlphabet[i] = c }
    IN  IF at = {} THEN -1 ELSE (CHOOSE i \in at : TRUE) - 1

RECURSIVE SymbolBits(_)
SymbolBits(s) ==
    IF s = <<>> THEN <<>>
    ELSE LET v == SymbolValue(Head(s))
         IN  IF v = -1 THEN SymbolBits(Tail(s))
             ELSE << (v \div 16) % 2, (v \div 8) % 2, (v \div 4) % 2,
                     (v \div 2) % 2, v % 2 >> \o SymbolBits(Tail(s))

ByteOfBits(bits, j) ==
    LET b(k) == bits[8 * (j - 1) + k]
    IN  128 * b(1) + 64 * b(2) + 32 * b(3) + 16 * b(4)
        + 8 * b(5) + 4 * b(6) + 2 * b(7) + b(8)

ReferenceDecode(s) ==
    LET bits == SymbolBits(s)
    IN  [j \in 1..(Len(bits) \div 8) |-> ByteOfBits(bits, j)]

NumSymbols(s) == Len(SymbolBits(s)) \div 5

RECURSIVE DecimalValue(_)
DecimalValue(s) ==
    IF s = <<>> THEN 0
    ELSE 10 * DecimalValue(SubSeq(s, 1, Len(s) - 1)) + IndexIn(Digits, s[Len(s)])

\* RFC 4226 5.3 on a 20-byte digest: four bytes at the offset given by the
\* low nibble of the last byte, big-endian, without the top bit.
ReferenceTruncate(hmac) ==
    LET o == hmac[20] % 16
    IN  (((hmac[o + 1] % 128) * 256 + hmac[o + 2]) * 256 + hmac[o + 3]) * 256
        + hmac[o + 4]

Called(c) == c.at >= 0

(***************************************************************************)
(* Properties.                                                             *)
(***************************************************************************)

C2_NonPositivePeriodRejected ==
    (Called(totp.last) /\ totp.period.val <= 0 /\ NumSymbols(totp.secret) >= 2) =>
        /\ totp.last.result.status = "rejected"
        /\ totp.last.result.error = "InvalidPeriod"
        /\ totp.last.result.code = <<>>

\* C3: for digits in {6,7,8}, a secret with a key and period > 0, the code
\* has exactly `digits` characters, all decimal digits, and its value is
\* the 31-bit truncated HMAC value modulo 10^digits.
C3_FixedWidthCode ==
    (/\ Called(totp.last)
     /\ totp.digits \in {Num(6), Num(7), Num(8)}
     /\ totp.period.val > 0
     /\ NumSymbols(totp.secret) >= 2) =>
        LET r   == totp.last.result
            mac == Digest(ReferenceDecode(totp.secret),
                          timeBuffer(Num((totp.last.at \div 1000) \div totp.period.val)))
        IN  /\ r.status = "resolved"
            /\ Len(r.code) = totp.digits.val
            /\ \A i \in 1..Len(r.code) : IndexIn(Digits, r.code[i]) >= 0
            /\ DecimalValue(r.code) = ReferenceTruncate(mac) % Pow10(totp.digits.val)

\* A code whose value needed left padding.
C3_Witness ==
    /\ Called(totp.last)
    /\ totp.digits = Num(8)
    /\ totp.period.val > 0
    /\ totp.last.result.status = "resolved"
    /\ totp.last.result.code[1] = "0"

\* C4: two calls with the same arguments at times in the same
\* floor(seconds / period) bucket give the same code.
C4_SameBucketSameCode ==
    (/\ Called(totp.last) /\ Called(totp.prev)
     /\ totp.period.val > 0
     /\ (totp.last.at \div 1000) \div totp.period.val
          = (totp.prev.at \div 1000) \div totp.period.val) =>
        totp.last.result = totp.prev.result

\* Two calls at different times of one bucket, both returning a code.
C4_Witness ==
    /\ Called(totp.last) /\ Called(totp.prev)
    /\ totp.period = Num(30)
    /\ totp.last.at # totp.prev.at
    /\ (totp.last.at \div 1000) \div 30 = (totp.prev.at \div 1000) \div 30
    /\ totp.last.result.status = "resolved"
    /\ totp.last.result = totp.prev.result

\* C5: base32Decode returns the reference decoding: the 5-bit values of the
\* symbols of A-Z and 2-7 (either case), everything else skipped, cut into
\* the floor(5n/8) complete bytes.
C5_DecodeIsReference ==
    b32.called =>
        /\ b32.output = ReferenceDecode(b32.encoded)
        /\ Len(b32.output) = (5 * NumSymbols(b32.encoded)) \div 8

\* Seven symbols, one of them lower-case: 35 bits have passed through the
\* 32-bit accumulator, which has wrapped to a negative value.
C5_Witness ==
    /\ b32.called
    /\ NumSymbols(b32.encoded) = 7
    /\ \E i \in 1..Len(b32.encoded) : b32.encoded[i] = "b"
    /\ base32DecodeState(b32.encoded).value < 0
    /\ Len(b32.output) = 4

\* C6: getTimeRemaining is in [1, period]; from one second to the next it
\* decreases by 1, except that after 1 it is period again, and that happens
\* exactly when the counter floor(t / period) increments.
C6_Countdown ==
    /\ [](timer.remaining \in 1..timer.period)
    /\ [][ LET counter(t) == (t \div 1000) \div timer.period
           IN  /\ timer'.remaining =
                    IF timer.remaining = 1 THEN timer.period
                    ELSE timer.remaining - 1
               /\ (timer.remaining = 1) <=> (counter(timer'.now) = counter(timer.now) + 1)
               /\ (timer.remaining # 1) <=> (counter(timer'.now) = counter(timer.now))
         ]_vars

\* The countdown of a 30 second period has wrapped around.
C6_Witness ==
    /\ timer.period = 30
    /\ timer.ticks > 0
    /\ timer.remaining = 30

(***************************************************************************)
(* Properties of parseOtpAuthUrl.                                          *)
(***************************************************************************)
HasParam(query, name) == \E i \in 1..Len(query) : query[i].name = name

ParamValue(query, name) == query[CHOOSE i \in 1..Len(query) : query[i].name = name].value

HexChars == {"0","1","2","3","4","5","6","7","8","9",
             "A","B","C","D","E","F","a","b","c","d","e","f"}

\* Every '%' of the pathname starts the escape of one printable ASCII character.
WellEscaped(pathname) ==
    \A i \in 1..Len(pathname) :
        pathname[i] = "%" =>
            /\ i + 2 <= Len(pathname)
            /\ pathname[i + 1] \in {"2","3","4","5","6","7"}
            /\ pathname[i + 2] \in HexChars

\* The text is a URI with scheme otpauth (in any case) and host exactly totp.
IsTotpUri(text) ==
    /\ text.kind = "url"
    /\ text.scheme \in { <<"o","t","p","a","u","t","h">>, <<"O","T","P","A","U","T","H">> }
    /\ text.host = <<"t","o","t","p">>

\* C7 (as first stated): parseOtpAuthUrl never throws, returns null for a
\* text that is no URI, has another scheme, a host other than totp or no
\* secret parameter, and returns a credential for every other text.
C7_NullExactlyForListed ==
    url.called =>
        /\ url.result.outcome # "threw"
        /\ (url.result.outcome = "value") <=>
              (IsTotpUri(url.text) /\ HasParam(url.text.query, "secret"))

\* C7 (amended): parseOtpAuthUrl never throws and returns a credential
\* exactly for the otpauth URIs with host totp whose secret parameter is
\* present and not empty and whose path is well-formed percent-encoding;
\* for every other text it returns null.
C7_NullOrCredential ==
    url.called =>
        /\ url.result.outcome # "threw"
        /\ (url.result.outcome = "value") <=>
              (/\ IsTotpUri(url.text)
               /\ HasParam(url.text.query, "secret")
               /\ ParamValue(url.text.query, "secret") # <<>>
               /\ WellEscaped(url.text.pathname))

\* A URI whose host is TOTP in upper case has been rejected.
C7_Witness ==
    /\ url.called
    /\ url.text.kind = "url"
    /\ url.text.scheme = <<"o","t","p","a","u","t","h">>
    /\ url.text.host = <<"T","O","T","P">>
    /\ HasParam(url.text.query, "secret")
    /\ url.result.outcome = "null"

FirstColon(label) == CHOOSE i \in 1..Len(label) :
                        label[i] = ":" /\ \A j \in 1..(i - 1) : label[j] # ":"

DecodedLabel(text) == decodeURIComponent(SliceFrom1(text.pathname)).str

\* C8 (as first stated): the account is the label after its first ':' (the
\* whole label when it has none); the issuer is the issuer parameter when
\* present, otherwise the label before its first ':' (the empty string when
\* it has none).
C8_LabelSplitIssuerWhenPresent ==
    (url.called /\ url.result.outcome = "value") =>
        LET L     == DecodedLabel(url.text)
            q     == url.text.query
            colon == \E i \in 1..Len(L) : L[i] = ":"
        IN  /\ url.result.account =
                  IF colon THEN SubSeq(L, FirstColon(L) + 1, Len(L)) ELSE L
            /\ url.result.issuer =
                  IF HasParam(q, "issuer") THEN ParamValue(q, "issuer")
                  ELSE IF colon THEN SubSeq(L, 1, FirstColon(L) - 1) ELSE <<>>

\* C8 (amended): as above, but an issuer parameter that is present and empty
\* counts as absent: the issuer is then the label before its first ':'.
C8_LabelSplit ==
    (url.called /\ url.result.outcome = "value") =>
        LET L     == DecodedLabel(url.text)
            q     == url.text.query
            colon == \E i \in 1..Len(L) : L[i] = ":"
        IN  /\ url.result.account =
                  IF colon THEN SubSeq(L, FirstColon(L) + 1, Len(L)) ELSE L
            /\ url.result.issuer =
                  IF HasParam(q, "issuer") /\ ParamValue(q, "issuer") # <<>>
                  THEN ParamValue(q, "issuer")
                  ELSE IF colon THEN SubSeq(L, 1, FirstColon(L) - 1) ELSE <<>>

\* A label with two colons and no issuer parameter: the account keeps the
\* second colon.
C8_Witness ==
    /\ url.called
    /\ url.result.outcome = "value"
    /\ url.text.pathname = <<"/","G","i","t",":","a",":","b">>
    /\ ~HasParam(url.text.query, "issuer")
    /\ url.result.issuer = <<"G","i","t">>
    /\ url.result.account = <<"a",":","b">>

\* What C9 expects of digits and period: the default when the parameter is
\* absent or holds no integer, the integer otherwise.
ExpectedNumber(query, name, default) ==
    IF ~HasParam(query, name) THEN Num(default)
    ELSE IF parseInt(ParamValue(query, name)) = NaN THEN Num(default)
    ELSE parseInt(ParamValue(query, name))

\* C9: digits is 6 and period is 30 when the parameter is absent or not
\* parseable as an integer; otherwise they are the parsed integers.
C9_DefaultsWhenUnparseable ==
    (url.called /\ url.result.outcome = "value") =>
        /\ url.result.digits = ExpectedNumber(url.text.query, "digits", 6)
        /\ url.result.period = ExpectedNumber(url.text.query, "period", 30)

(***************************************************************************)
(* Properties of the store.                                                *)
(***************************************************************************)
\* The Credential invariants of one stored account.
ValidCredential(a) ==
    /\ NumSymbols(a.secret) >= 2
    /\ a.digits.kind = "number" /\ a.digits.val >= 1
    /\ a.period.kind = "number" /\ a.period.val >= 1

\* C10: every account in storage has a secret that decodes to at least one
\* byte, an integer digits >= 1 and an integer period >= 1.
C10_StoredCredentialsValid ==
    \A i \in 1..Len(file.accounts) : ValidCredential(file.accounts[i])


(***************************************************************************)
(* Storage calls run one at a time.                                        *)
(***************************************************************************)
\* The stored record that addAccount makes of account under id.
StoredAs(account, id, record) ==
    /\ record.id = id
    /\ record.issuer = account.issuer
    /\ record.account = account.account
    /\ record.secret = account.secret
    /\ record.digits = account.digits
    /\ record.period = account.period

HasId(accounts, id) == \E i \in 1..Len(accounts) : accounts[i].id = id

\* What one storage call may change, from the accounts before to after.
AddAppendsOne(before, after) ==
    /\ Len(after) = Len(before) + 1
    /\ SubSeq(after, 1, Len(before)) = before
    /\ StoredAs(last'.account, last'.id, after[Len(after)])

RemoveDeletesOnlyId(before, after) ==
    /\ after = SelectSeq(before, LAMBDA a : a.id # last'.id)
    /\ last'.result = HasId(before, last'.id)
    /\ ~HasId(before, last'.id) => file' = file

UpdateChangesOnlyId(before, after) ==
    /\ Len(after) = Len(before)
    /\ \A i \in 1..Len(before) :
          IF before[i].id = last'.id
          THEN /\ after[i].id = before[i].id
               /\ after[i].createdAt = before[i].createdAt
               /\ \A k \in DOMAIN before[i] \ DOMAIN last'.updates :
                     after[i][k] = before[i][k]
               /\ \A k \in DOMAIN last'.updates : after[i][k] = last'.updates[k]
          ELSE after[i] = before[i]
    /\ last'.isNull = ~HasId(before, last'.id)
    /\ ~HasId(before, last'.id) => file' = file

C19_AddKeepsPersisted ==
    [][ last'.op = "addAccount" =>
          \A i \in 1..Len(file.accounts) :
              \E j \in 1..Len(file'.accounts) :
                  file'.accounts[j] = file.accounts[i]
      ]_vars


\* C18: no completed add is lost: once addAccount calls have returned, the
\* file holds the account of each of them, also when the calls overlapped.
C18_NoCompletedAddLost ==
    last.op = "addAccount" /\ "returned" \in DOMAIN last =>
        \A id \in last.returned : HasId(file.accounts, id)


(***************************************************************************)
(* The 2fa command.                                                        *)
(***************************************************************************)
CommandWords ==
    { <<"t","u","i">>, <<"l","i","s","t">>, <<"l","s">>, <<"a","d","d">>, <<"g","e","t">>, <<"c","o","p","y">>, <<"c","p">>, <<"r","e","m","o","v","e">>, <<"r","m">>, <<"d","e","l","e","t","e">> }

\* The last run was `2fa <word>` with one argument.
OneWordRun == last.op = "runCli" /\ Len(last.args) = 1

\* `2fa get <word>` over the same file at the same time.
GetRun ==
    runCli(<< Word(<<"g","e","t">>), last.args[1] >>, file, last.now,
           NoFinding, nextId)

\* The last run printed what `2fa get <word>` prints.
SameCodeAsGet == last.out = GetRun.out /\ last.threw = GetRun.threw

\* C14 as stated: for every query string, `2fa <query>` prints the same code
\* as `2fa get <query>`.
C14_ShorthandIsGet == OneWordRun => SameCodeAsGet

\* C14: `2fa <query>` prints the same code as `2fa get <query>` for every
\* query that is not empty, does not start with '-' and is not one of the
\* command words.
C14_ShorthandIsGetUnlessCommand ==
    /\ OneWordRun
    /\ RawText(last.args[1]) # <<>>
    /\ ~startsWith(RawText(last.args[1]), <<"-">>)
    /\ RawText(last.args[1]) \notin CommandWords
    => SameCodeAsGet /\ last.exit = GetRun.exit

C14_Witness ==
    /\ OneWordRun
    /\ RawText(last.args[1]) = <<"g","i","t">>
    /\ Len(file.accounts) = 2
    /\ Len(last.out) = 1

\* s contains q, letters compared without case.
ContainsNoCase(s, q) ==
    \E i \in 0..(Len(s) - Len(q)) :
        \A j \in 1..Len(q) : ToLowerChar(s[i + j]) = ToLowerChar(q[j])

\* The account matches the query of get, copy and remove.
Matches(account, query) ==
    \/ ContainsNoCase(account.account, query)
    \/ ContainsNoCase(account.issuer, query)
    \/ IdText(account.id) = query

\* The next state ends a run of `2fa remove <query>` with a query.
RemoveRun ==
    /\ last'.op = "runCli"
    /\ Len(last'.args) >= 2
    /\ RawText(last'.args[1]) \in { <<"r","e","m","o","v","e">>, <<"r","m">>, <<"d","e","l","e","t","e">> }
    /\ RawText(last'.args[2]) # <<>>

\* The run removed the first account that matches and nothing else; with no
\* match it left the file as it was and exited with status 1.
RemovedFirstMatch ==
    LET before == file.accounts
        query == RawText(last'.args[2])
        hits == { i \in 1..Len(before) : Matches(before[i], query) }
        first == CHOOSE i \in hits : \A j \in hits : i <= j
    IN  IF hits = {}
        THEN file' = file /\ last'.exit = 1
        ELSE /\ file'.accounts = SubSeq(before, 1, first - 1)
                                 \o SubSeq(before, first + 1, Len(before))
             /\ last'.exit = 0

\* C16 as stated: `2fa remove <query>` with a non-empty query removes
\* exactly the first account that matches, and with no match changes nothing
\* and exits with status 1.
C16_RemoveFirstMatch == [][RemoveRun => RemovedFirstMatch]_vars

\* C16: the same, for a query that is not a help or version word.
C16_RemoveFirstMatchUnlessHelp ==
    [][ RemoveRun /\ ~IncludesAny(last'.args, HelpWords \cup VersionWords)
        => RemovedFirstMatch ]_vars

C16_Witness ==
    /\ last.op = "runCli"
    /\ Len(last.args) = 2
    /\ RawText(last.args[1]) = <<"r","e","m","o","v","e">>
    /\ RawText(last.args[2]) = <<"g","i","t">>
    /\ last.exit = 0
    /\ Len(file.accounts) = 1
    /\ Matches(file.accounts[1], <<"g","i","t">>)


(***************************************************************************)
(* SpecCodes: the operations that produce codes.  Accounts are added from  *)
(* the command line; `2fa list`, get, copy and the `2fa <query>` shorthand *)
(* run, and the App component's list view gets the keys r (refresh) and c  *)
(* (copy).                                                                 *)
(***************************************************************************)
CodeLines ==
    { << Word(<<"l","i","s","t">>) >>, << Word(<<"l","s">>) >>,
      << Word(<<"g","e","t">>), Word(<<"g","i","t">>) >>,
      << Word(<<"c","o","p","y">>), Word(<<"a","l","i","c","e">>) >>,
      << Word(<<"c","p">>), Word(<<"n","o","b","o","d","y">>) >>,
      << Word(<<"g","e","t">>), Word(<<"u","u","i","d","-","1">>) >>,
      << Word(<<"g","i","t">>) >>, << Word(<<"A","L","I","C","E">>) >>,
      << Word(<<"h","e","l","p","e","r">>) >> }

CodeKeys == { "r", "c", "enter" }

\* The key callback has ended as after, handing copied to the clipboard.
KeyEnds(e, after, copied) ==
    /\ after.added => nextId <= MaxIds
    /\ Len(readStorage(after.file)) <= MaxAccounts
    /\ Len(after.app.accountName) <= MaxName
    /\ tui' = after.app
    /\ file' = after.file
    /\ nextId' = IF after.added THEN nextId + 1 ELSE nextId
    /\ last' = [op |-> "key", key |-> e, view |-> tui.view, copied |-> copied]
    /\ UNCHANGED <<procs, task, coreVars>>

\* A key is pressed in the list view with the clipboard not read.
ListKeyPress(keys) ==
    \E e \in keys :
        /\ tui.view = "list"
        /\ KeyEnds(e, useKeyboard(tui, file, e, NoFinding, nextId),
                   IF e \in {"c", "enter", "return"} THEN handleCopyCode(tui)
                   ELSE Null)

CodeRun == CliRun(CodeLines)
CodeKey == ListKeyPress(CodeKeys)

NextCodes == CliAddRun \/ CodeRun \/ CodeKey

SpecCodes == InitCli /\ [][NextCodes]_vars

\* The step ends an operation that only produces codes.
ProducedCodes ==
    \/ /\ last'.op = "runCli"
       /\ last'.handled
       /\ Len(last'.args) >= 1
       /\ RawText(last'.args[1]) \notin
              { <<"a","d","d">>, <<"r","e","m","o","v","e">>, <<"r","m">>,
                <<"d","e","l","e","t","e">> }
    \/ /\ last'.op = "key"
       /\ last'.view = "list"
       /\ last'.key \in { "r", "c", "enter", "return" }

\* C11: every operation that only produces codes (CLI list, get, copy, the
\* `2fa <query>` shorthand, the TUI refresh and copy handlers) leaves the
\* stored account list as it was.
C11_CodesLeaveStorage == [][ProducedCodes => file' = file]_vars

C11_Witness ==
    /\ Len(file.accounts) = 2
    /\ last.op = "runCli"
    /\ RawText(last.args[1]) = <<"l","i","s","t">>
    /\ Len(last.out) = 2
    /\ Len(tui.accounts) = 2

\* generateTOTP resolves for the stored account at time now.
Generates(account, now) ==
    generateTOTP(account.secret, account.digits, account.period, now).status
        = "resolved"

\* The last operation was `2fa list`; it was the refresh key of the TUI.
ListRan ==
    /\ last.op = "runCli"
    /\ Len(last.args) = 1
    /\ RawText(last.args[1]) \in { <<"l","i","s","t">>, <<"l","s">> }

RefreshRan == last.op = "key" /\ last.view = "list" /\ last.key = "r"

\* C13: when generation fails for one stored credential, `2fa list` and the
\* TUI refresh still show the code of every other stored credential.
C13_OthersStillShown ==
    \A i \in 1..Len(file.accounts) :
        /\ ListRan /\ Generates(file.accounts[i], last.now)
           => (\E j \in 1..Len(last.out) : last.out[j].id = file.accounts[i].id)
        /\ RefreshRan /\ Generates(file.accounts[i], tui.now)
           => (\E j \in 1..Len(tui.accounts) :
                   tui.accounts[j].id = file.accounts[i].id)


(***************************************************************************)
(* SpecTui: the App component over a store that holds no account, one      *)
(* account, or one account of period 30 and one of period 7.  Keys are     *)
(* pressed in every view and the interval callback runs once per second.   *)
(***************************************************************************)
MaxTuiSeconds == 8

TuiFiles ==
    LET none == [exists |-> FALSE, accounts |-> <<>>]
        one  == addAccount(none, FromParsed(parseOtpAuthUrl(AliceUri)), 1, 1)
    IN  { none, one, addAccount(one, PeriodSeven, 2, 2) }

TuiKeys == { "up", "down", "j", "c", "a", "d", "r", "y", "n", "enter", "escape" }

TuiFindings ==
    { NoFinding,
      ClipboardFinding([hasText |-> TRUE, text |-> AliceUri, qr |-> NoText]) }

\* The App component has mounted and its initial load has set the list.
InitTui ==
    /\ file \in TuiFiles
    /\ nextId = Len(file.accounts) + 1
    /\ tui = [AppStart EXCEPT !.accounts = refreshAccounts(file, 0).accounts]
    /\ last = NoRun
    /\ procs = [p \in Procs |-> ProcIdle]
    /\ task = TaskIdle
    /\ b32 = B32Idle
    /\ totp = TotpIdle
    /\ timer = TimerIdle
    /\ url = UrlIdle

\* A key is pressed; the clipboard is read on enter in the add view.
TuiKey ==
    \E e \in TuiKeys :
      \E finding \in (IF tui.view = "add" /\ e = "enter" THEN TuiFindings
                      ELSE {NoFinding}) :
        KeyEnds(e, useKeyboard(tui, file, e, finding, nextId),
                IF tui.view = "list" /\ e \in {"c", "enter", "return"}
                THEN handleCopyCode(tui) ELSE Null)

\* The interval callback at time now: setTimeRemaining, and refreshAccounts,
\* which ends as r, when the remaining time is 30 or 29.
TickEnds(now, remaining, r) ==
    /\ tui' = IF remaining \in {30, 29} /\ ~r.failed
              THEN [tui EXCEPT !.now = now, !.accounts = r.accounts]
              ELSE [tui EXCEPT !.now = now]
    /\ last' = [op |-> "tick", remaining |-> remaining]
    /\ UNCHANGED <<file, nextId, procs, task, coreVars>>

\* One second passes and the interval callback runs.
TuiTick ==
    /\ tui.now + 1000 <= MaxTuiSeconds * 1000
    /\ TickEnds(tui.now + 1000, getTimeRemaining(30, tui.now + 1000),
                refreshAccounts(file, tui.now + 1000))

NextTui == TuiKey \/ TuiTick

SpecTui == InitTui /\ [][NextTui]_vars

\* C12: on every one-second tick the TUI reads the stored credentials and
\* regenerates the code of each, whatever its period: after a tick the
\* displayed codes are those of the stored accounts at the time of the tick.
C12_TickRegeneratesAll ==
    last.op = "tick" /\ ~refreshAccounts(file, tui.now).failed
    => tui.accounts = refreshAccounts(file, tui.now).accounts

\* C17: whenever the displayed account list is not empty, the selection
\* index satisfies 0 <= selectedIndex < accounts.length.
C17_SelectionInList == Len(tui.accounts) > 0 => Selected(tui)


(***************************************************************************)
(* SpecLoading: handleAddFromClipboard run from await to await.  The task  *)
(* holds the await the handler is at and what the clipboard holds; every   *)
(* awaited operation completes (weak fairness of TaskStep), by resolving   *)
(* or by throwing.                                                         *)
(***************************************************************************)
LoadingKeys == { "a", "escape", "enter" }

\* What the clipboard holds when the handler reads it: a URI, a URI whose
\* secret decodes to no byte, a key, nothing, and a QR code with and
\* without a URI.
LoadingFindings ==
    { ClipboardFinding(c) :
        c \in { [hasText |-> TRUE, text |-> t, qr |-> NoText] :
                   t \in { AliceUri, HelperUri, Text(GoodKey) } }
              \cup { [hasText |-> FALSE, text |-> Text(<<>>), qr |-> q] :
                       q \in { NoText, [isNull |-> FALSE, text |-> NotAKey],
                               [isNull |-> FALSE, text |-> AliceUri] } } }

\* generateTOTP at time 0 with 6 digits and period 30 for the secrets the
\* clipboard can hold, computed once.
StartCodes ==
    [secret \in { GoodKey, <<"A">> } |-> generateTOTP(secret, Num(6), Num(30), 0)]

\* refreshAccounts at time 0 over accounts added from LoadingFindings.
refreshAccountsAtStart(f) ==
    refreshAccountsOf(getAccounts(f),
        [i \in 1..Len(getAccounts(f)) |-> StartCodes[getAccounts(f)[i].secret]])

\* The handler before its first await: setLoading(true).
TaskStarted(app) == [app EXCEPT !.loading = TRUE]

\* The catch and finally blocks without setLoading(false).
catchFinallyKeepsLoading(app) == app

\* The catch and finally blocks: setMessage, setLoading(false).
catchFinally(app) == [app EXCEPT !.loading = FALSE]

Step(app, f, t, added) == [app |-> app, file |-> f, task |-> t, added |-> added]

\* The handler once refreshAccounts has ended as r.
AfterRefresh(app, f, r, throws) ==
    IF r.failed \/ throws THEN Step(catchFinally(app), f, TaskIdle, FALSE)
    ELSE Step([app EXCEPT !.accounts = r.accounts, !.view = "list",
                          !.loading = FALSE], f, TaskIdle, FALSE)

\* The handler from the await named t.pc to its next await or its end; the
\* awaited operation throws when throws.
handleAddFromClipboardStep(app, f, t, throws, id) ==
    IF t.pc = "readTextFromClipboard"
    THEN (IF t.finding.found = "uri"
          THEN Step(app, f, [t EXCEPT !.pc = "addAccount"], FALSE)
          ELSE IF t.finding.found = "key"
          THEN Step([app EXCEPT !.pendingSecret = Str(toUpperCase(t.finding.key)),
                                !.accountName = <<>>,
                                !.view = "add-key",
                                !.loading = FALSE], f, TaskIdle, FALSE)
          ELSE Step(app, f, [t EXCEPT !.pc = "readQRFromClipboard"], FALSE))
    ELSE IF t.pc = "readQRFromClipboard"
    THEN (IF throws THEN Step(catchFinally(app), f, TaskIdle, FALSE)
          ELSE IF t.finding.found = "qr"
          THEN Step(app, f, [t EXCEPT !.pc = "addAccount"], FALSE)
          ELSE Step([app EXCEPT !.loading = FALSE], f, TaskIdle, FALSE))
    ELSE IF t.pc = "addAccount"
    THEN (IF throws THEN Step(catchFinally(app), f, TaskIdle, FALSE)
          ELSE Step(app, addAccount(f, t.finding.account, id, id),
                    [t EXCEPT !.pc = "refreshAccounts"], TRUE))
    ELSE AfterRefresh(app, f, refreshAccountsAtStart(f), throws)

InitLoading ==
    /\ AppIdle
    /\ b32 = B32Idle
    /\ totp = TotpIdle
    /\ timer = TimerIdle
    /\ url = UrlIdle

\* Enter in the add view starts the handler; the clipboard holds finding.
TaskStart ==
    \E finding \in LoadingFindings :
        /\ tui.view = "add" /\ ~tui.loading /\ task.pc = "idle"
        /\ Len(readStorage(file)) < MaxAccounts /\ nextId <= MaxIds
        /\ tui' = TaskStarted(tui)
        /\ task' = [pc |-> "readTextFromClipboard", finding |-> finding]
        /\ last' = [op |-> "handleAddFromClipboard", pc |-> "start", threw |-> FALSE]
        /\ UNCHANGED <<file, nextId, procs, coreVars>>

TaskStepEnds(throws, after) ==
    /\ tui' = after.app
    /\ file' = after.file
    /\ task' = after.task
    /\ nextId' = IF after.added THEN nextId + 1 ELSE nextId
    /\ last' = [op |-> "handleAddFromClipboard", pc |-> task.pc, threw |-> throws]
    /\ UNCHANGED <<procs, coreVars>>

\* The operation the handler awaits completes.
TaskStep ==
    /\ task.pc # "idle"
    /\ \E throws \in (IF task.pc = "readTextFromClipboard" THEN {FALSE}
                      ELSE BOOLEAN) :
           TaskStepEnds(throws,
               handleAddFromClipboardStep(tui, file, task, throws, nextId))

\* A key other than enter in the add view is pressed.
LoadingKey ==
    \E e \in LoadingKeys :
        /\ ~(tui.view = "add" /\ e = "enter" /\ ~tui.loading)
        /\ KeyEnds(e, useKeyboard(tui, file, e, NoFinding, nextId), Null)

NextLoading == TaskStart \/ TaskStep \/ LoadingKey

SpecLoading == InitLoading /\ [][NextLoading]_vars /\ WF_vars(TaskStep)

\* C20: every run of handleAddFromClipboard sets loading back to false on
\* every path, the awaited operations completing: loading never stays true.
C20_LoadingEnds == tui.loading ~> ~tui.loading

C20_Witness ==
    /\ last.op = "handleAddFromClipboard"
    /\ last.pc = "refreshAccounts"
    /\ last.threw
    /\ task.pc = "idle"
    /\ ~tui.loading


\* Under SpecLoading the codes computed once are those refreshAccounts gives.
StartCodesAreCodes == refreshAccountsAtStart(file) = refreshAccounts(file, tui.now)

=============================================================================
